---- MODULE Spec2Model ----
(***************************************************************************)
(* A model of extract_mels.py (FastPitch data pre-processing): the helper  *)
(* functions dur_chunk_sizes, parse_textgrid, run_length_encode,           *)
(* calculate_pitch and normalize_pitch_vectors as operators, and main() as *)
(* a state machine over the per-batch, per-utterance steps.                *)
(*                                                                         *)
(* Numbers.  Python ints are TLA+ integers.  A float is modelled exactly   *)
(* as a 4-tuple <<n, d, sn, sd>> standing for (n/d) / sqrt(sn/sd): plain   *)
(* rationals have sn = sd = 1, d = 0 encodes nan (n = 0) and +-inf         *)
(* (n = +-1).  Floating-point rounding is not modelled.                    *)
(***************************************************************************)
EXTENDS Integers, Sequences, FiniteSets, TLC

VARIABLES
    call,        \* FnSpec: the helper call under test, with its arguments
    ret,         \* FnSpec: what the call returned or raised
    args,        \* main: the parsed command line
    pc,          \* main: the stage of main() that runs next
    batch_i,     \* main: i, the number of the current batch (1-based; 0 before the first)
    utt_j,       \* main: j, the position in the batch the current stage's loop is at
    mel_lens,    \* main: the batch's mel lengths
    texts_padded,\* main: the batch's symbol sequences, cut to text_lens
    bound,       \* main: which of the locals durations, texts, trim are bound
    durations,   \* main: the list durations
    texts,       \* main: the list texts (phones per utterance)
    times,       \* main: the lists start_times and end_times, as pairs
    text,        \* main: the trimming loop's local text
    trim,        \* main: the locals trim_start and trim_end
    pitch_vecs,  \* main: the three accumulators, each a dict fname -> vector
    mels_file,   \* disk: mels/<fname>.pt, as the frames (by original index) it holds
    durs_file,   \* disk: durations/<fname>.pt
    pitch_file,  \* disk: pitch_mel, pitch_char, pitch_trichar/<fname>.pt
    log,         \* DLLogger: the "Feature length mismatch" records
    err          \* the exception that ended the run, "" while it runs

\* ------------------------------------------------------------ bounds
MaxN == 7            \* dur_chunk_sizes: n in 0..MaxN
MaxAry == 4          \* dur_chunk_sizes: ary in 1..MaxAry
MaxSymbols == 6      \* run_length_encode: input length in 1..MaxSymbols
MaxTier == 3         \* parse_textgrid: intervals per tier in 1..MaxTier
MaxDurs == 3         \* calculate_pitch: symbols per utterance in 1..MaxDurs
MaxFrames == 4       \* calculate_pitch: sum of the durations at most MaxFrames
MaxVecLen == 2       \* normalize_pitch_vectors: vector length in 1..MaxVecLen
MaxMelLen == 4       \* main: an utterance's mel length in 1..MaxMelLen

\* ------------------------------------------------------------ arithmetic
Abs(x) == IF x < 0 THEN -x ELSE x
Min(a, b) == IF a < b THEN a ELSE b
Max(a, b) == IF a > b THEN a ELSE b

RECURSIVE GCD(_, _)
GCD(a, b) == IF b = 0 THEN a ELSE GCD(b, a % b)

\* The rational n/d (d > 0) in lowest terms, as <<n, d>>.
Rat(n, d) ==
    LET g == GCD(Abs(n), d)
    IN  IF g = 0 THEN <<0, 1>> ELSE <<n \div g, d \div g>>
RAdd(p, q) == Rat(p[1] * q[2] + q[1] * p[2], p[2] * q[2])
RSub(p, q) == Rat(p[1] * q[2] - q[1] * p[2], p[2] * q[2])
RMul(p, q) == Rat(p[1] * q[1], p[2] * q[2])
RDivInt(p, k) == Rat(p[1], p[2] * k)
\* np.ceil of a rational
RCeil(p) == -((-p[1]) \div p[2])

\* Floats: <<n, d, sn, sd>>.
F(n, d) == <<Rat(n, d)[1], Rat(n, d)[2], 1, 1>>
FZero == <<0, 1, 1, 1>>
FNan == <<0, 0, 1, 1>>
FOfRat(p) == <<p[1], p[2], 1, 1>>
RatOf(x) == <<x[1], x[2]>>
IsZero(x) == x[1] = 0 /\ x[2] # 0
IsNan(x) == x[1] = 0 /\ x[2] = 0

RECURSIVE Sum(_)
Sum(s) == IF s = <<>> THEN 0 ELSE s[1] + Sum(Tail(s))

RECURSIVE RSum(_)
RSum(s) == IF s = <<>> THEN <<0, 1>> ELSE RAdd(RatOf(s[1]), RSum(Tail(s)))

RECURSIVE Concat(_)
Concat(ss) == IF ss = <<>> THEN <<>> ELSE ss[1] \o Concat(Tail(ss))

\* Python's seq[a:b] for 0 <= a, 0 <= b (indices clipped to the length).
Slice(s, a, b) == SubSeq(s, a + 1, Min(b, Len(s)))

\* np.cumsum(np.pad(durs, (1, 0))): the T+1 boundaries 0, d1, d1+d2, ...
CumSum(durs) == [i \in 1..(Len(durs) + 1) |-> Sum(SubSeq(durs, 1, i - 1))]

\* All sequences over S of length lo..hi.
SeqsOf(S, lo, hi) == UNION {[1..n -> S] : n \in lo..hi}

Ok(v) == [kind |-> "ok", val |-> v]
Raise(e) == [kind |-> "raise", exc |-> e]
Pending == [kind |-> "pending"]

\* ------------------------------------------------------------ dur_chunk_sizes
\* Mutant: the larger parts are put last instead of first.
dur_chunk_sizes_last(n, ary) ==
    LET r == [i \in 1..ary |-> IF i > ary - (n % ary) THEN n \div ary + 1 ELSE n \div ary]
    IN  IF Sum(r) = n THEN Ok(r) ELSE Raise("AssertionError")

\* ret = ones(ary) * (n // ary); ret[:n % ary] = n // ary + 1; assert sum == n
dur_chunk_sizes(n, ary) ==
    LET r == [i \in 1..ary |-> IF i <= n % ary THEN n \div ary + 1 ELSE n \div ary]
    IN  IF Sum(r) = n THEN Ok(r) ELSE Raise("AssertionError")

\* ------------------------------------------------------------ run_length_encode
\* The loop over zip(symbols, symbols[1:]): pair i is (symbols[i], symbols[i+1]).
RECURSIVE rle_loop(_, _, _, _)
rle_loop(symbols, i, run_lengths, dur) ==
    IF i >= Len(symbols)
    THEN [run_lengths |-> run_lengths, dur |-> dur]
    ELSE IF symbols[i + 1] = symbols[i]
         THEN rle_loop(symbols, i + 1, run_lengths, dur + 1)
         ELSE rle_loop(symbols, i + 1, Append(run_lengths, <<symbols[i], dur>>), 1)

\* After the loop u1 is the last element when the loop ran at least once; with
\* fewer than two symbols the loop body never ran and u1 is unbound.
run_length_encode(symbols) ==
    LET l == rle_loop(symbols, 1, <<>>, 1)
    IN  IF Len(symbols) < 2
        THEN Raise("UnboundLocalError")
        ELSE Ok(Append(l.run_lengths, <<symbols[Len(symbols)], l.dur>>))

\* ------------------------------------------------------------ parse_textgrid
sil_phones == {"sil", "sp", "spn", ""}

\* Mutant: the last interval is looked for at index len(tier), one too far.
phone_label_off_by_one(p, i, n) ==
    IF p \notin sil_phones THEN p
    ELSE IF i = 0 \/ i = n THEN "sil" ELSE "sp"

\* One interval's phone label (lines 170-178); i is the 0-based index.
phone_label(p, i, n) ==
    IF p \notin sil_phones THEN p
    ELSE IF i = 0 \/ i = n - 1 THEN "sil" ELSE "sp"

\* Mutant: the ceiling of the interval's length in frames, each interval rounded
\* on its own.
frames_between_ceil_of_length(s, e, sampling_rate, hop_length) ==
    RCeil(RDivInt(RMul(RSub(e, s), <<sampling_rate, 1>>), hop_length))

\* int(np.ceil(e * sampling_rate / hop_length) - np.ceil(s * sampling_rate / hop_length))
frames_between(s, e, sampling_rate, hop_length) ==
    RCeil(RDivInt(RMul(e, <<sampling_rate, 1>>), hop_length))
      - RCeil(RDivInt(RMul(s, <<sampling_rate, 1>>), hop_length))

\* tier: a sequence of [start_time, end_time, text], times as rationals.
parse_textgrid(tier, sampling_rate, hop_length) ==
    IF Len(tier) = 0 THEN Raise("IndexError")
    ELSE Ok([phones |-> [i \in 1..Len(tier) |->
                            phone_label(tier[i].text, i - 1, Len(tier))],
             durations |-> [i \in 1..Len(tier) |->
                            frames_between(tier[i].start_time, tier[i].end_time,
                                           sampling_rate, hop_length)],
             start_time |-> tier[1].start_time,
             end_time |-> tier[Len(tier)].end_time])

\* ------------------------------------------------------------ calculate_pitch
\* assert |len - l| <= 3; vec[:l]; zero-pad to l
maybe_pad(vec, l) ==
    IF Abs(Len(vec) - l) > 3 THEN Raise("AssertionError")
    ELSE Ok([i \in 1..l |-> IF i <= Len(vec) THEN vec[i] ELSE FZero])

\* values = pitch[a:b][pitch[a:b] != 0.0]; np.mean(values) if len(values) > 0 else 0.0
RECURSIVE NonZeros(_)
NonZeros(s) ==
    IF s = <<>> THEN <<>>
    ELSE IF IsZero(s[1]) THEN NonZeros(Tail(s)) ELSE <<s[1]>> \o NonZeros(Tail(s))

window_mean(pitch, a, b) ==
    LET values == NonZeros(Slice(pitch, a, b))
    IN  IF Len(values) > 0 THEN FOfRat(RDivInt(RSum(values), Len(values))) ELSE FZero

\* zeros(size), then for idx, a, b in zip(range(limit), cum[:-1], cum[1:]): the
\* loop stops at the shorter of range(limit) and the size windows.
aggregate(pitch, cum, size, limit) ==
    [i \in 1..size |->
        IF i <= limit THEN window_mean(pitch, cum[i], cum[i + 1]) ELSE FZero]

\* pitch is the tracker's output (snd.to_pitch(...).selected_array['frequency']).
calculate_pitch(pitch, durs) ==
    LET mel_len == Sum(durs)
        durs_cum == CumSum(durs)
        chunks == [i \in 1..Len(durs) |-> dur_chunk_sizes(durs[i], 3)]
        durs_tri == Concat([i \in 1..Len(durs) |-> chunks[i].val])
        durs_tri_cum == CumSum(durs_tri)
        pitch_char == aggregate(pitch, durs_cum, Len(durs), mel_len)
        pitch_trichar == aggregate(pitch, durs_tri_cum, 3 * Len(durs), 3 * mel_len)
        p_mel == maybe_pad(pitch, mel_len)
        p_char == maybe_pad(pitch_char, Len(durs))
        p_tri == maybe_pad(pitch_trichar, Len(durs_tri))
    IN  IF Abs(mel_len - Len(pitch)) > 1 THEN Raise("AssertionError")
        ELSE IF \E i \in 1..Len(durs) : chunks[i].kind # "ok" THEN Raise("AssertionError")
        ELSE IF p_mel.kind # "ok" \/ p_char.kind # "ok" \/ p_tri.kind # "ok"
             THEN Raise("AssertionError")
        ELSE Ok([mel |-> p_mel.val, char |-> p_char.val, trichar |-> p_tri.val])

\* ------------------------------------------------------------ normalize_pitch_vectors
\* vecs_in (pitch_vecs): a function from utterance names to vectors of plain floats.
RECURSIVE PoolNonZeros(_, _)
PoolNonZeros(vecs_in, keys) ==
    IF keys = {} THEN <<>>
    ELSE LET k == CHOOSE x \in keys : TRUE
         IN  NonZeros(vecs_in[k]) \o PoolNonZeros(vecs_in, keys \ {k})

RECURSIVE RSumSq(_)
RSumSq(s) ==
    IF s = <<>> THEN <<0, 1>>
    ELSE RAdd(RMul(RatOf(s[1]), RatOf(s[1])), RSumSq(Tail(s)))

\* np.mean / np.std (population) of the pooled nonzero values; of nothing, nan.
pooled_mean(nonzeros) ==
    IF Len(nonzeros) = 0 THEN FNan
    ELSE FOfRat(RDivInt(RSum(nonzeros), Len(nonzeros)))
\* the variance std^2 = E[x^2] - mean^2
pooled_var(nonzeros) ==
    IF Len(nonzeros) = 0 THEN FNan
    ELSE LET m == RDivInt(RSum(nonzeros), Len(nonzeros))
         IN  FOfRat(RSub(RDivInt(RSumSq(nonzeros), Len(nonzeros)), RMul(m, m)))

\* v -= mean; v /= std for one entry (before the zeros are restored)
scale(x, mean, var) ==
    IF IsNan(mean) \/ IsNan(var) THEN FNan
    ELSE LET q == RSub(RatOf(x), RatOf(mean))
         IN  IF var[1] = 0
             THEN (IF q[1] = 0 THEN FNan ELSE <<(IF q[1] > 0 THEN 1 ELSE -1), 0, 1, 1>>)
             ELSE IF q[1] = 0 THEN FZero
             ELSE <<q[1], q[2], var[1], var[2]>>

\* zero_idxs = where(v == 0.0); v -= mean; v /= std; v[zero_idxs] = 0.0
normalize_vector(v, mean, var) ==
    [i \in 1..Len(v) |-> IF IsZero(v[i]) THEN FZero ELSE scale(v[i], mean, var)]

normalize_pitch_vectors(vecs_in) ==
    LET keys == DOMAIN vecs_in
        nonzeros == PoolNonZeros(vecs_in, keys)
        mean == pooled_mean(nonzeros)
        var == pooled_var(nonzeros)
    IN  IF keys = {} THEN Raise("ValueError")
        ELSE Ok([vecs |-> [k \in keys |-> normalize_vector(vecs_in[k], mean, var)],
                 mean |-> mean, var |-> var])

\* A contiguous tier: it starts at tick t0 and interval i lasts ticks[i]; a tick
\* is a quarter of a second.
MakeTier(t0, ticks, labels) ==
    [i \in 1..Len(ticks) |->
        [start_time |-> Rat(t0 + Sum(SubSeq(ticks, 1, i - 1)), 4),
         end_time |-> Rat(t0 + Sum(SubSeq(ticks, 1, i)), 4),
         text |-> labels[i]]]

\* ------------------------------------------------------------ main(): inputs
\* Python's None and a bound value, as sequences of length 0 and 1.
None == <<>>
Some(x) == <<x>>

Fnames == <<"u1", "u2">>
BatchSizes == {1, 2}
Strategies == {"none", "attention", "textgrid", "unit"}
\* --trim-silence: absent, 0 s, or half a second
TrimOptions == {None, Some(<<0, 1>>), Some(<<1, 2>>)}
ArgSamplingRates == {4}
ArgHopLengths == {2}

\* The command lines explored: at most one duration strategy, any pitch flags.
Configs ==
    {[extract_durations |-> st = "attention",
      extract_durs_from_textgrids |-> st = "textgrid",
      extract_durs_from_unit_sequences |-> st = "unit",
      extract_pitch_mel |-> pm, extract_pitch_char |-> pch, extract_pitch_trichar |-> pt,
      trim_silence |-> ts, batch_size |-> bs,
      sampling_rate |-> sr, hop_length |-> hop] :
        st \in Strategies, pm \in BOOLEAN, pch \in BOOLEAN, pt \in BOOLEAN,
        ts \in TrimOptions, bs \in BatchSizes,
        sr \in ArgSamplingRates, hop \in ArgHopLengths}

\* The symbol sequences the loader yields: unit ids for the unit strategy (the
\* first unit is 1, by symmetry), otherwise only their length is read.
UnitTexts == {s \in SeqsOf({1, 2}, 1, 3) : s[1] = 1}
PlainTexts == {[k \in 1..n |-> 1] : n \in 1..2}
LoaderTexts(a) == IF a.extract_durs_from_unit_sequences THEN UnitTexts ELSE PlainTexts

\* The phone tiers read from TextGrid/<fname>.TextGrid: three intervals, a phone
\* in the middle or a pause between two phones; a silence ("") lasts 0, 1 or 2
\* frames and a phone 1 frame (a tick is a quarter of a second, two ticks a frame).
SilTicks == {0, 2, 4}
PhoneTicks == {2}
TierShapes == {<<"", "a", "">>, <<"", "a", "a">>, <<"a", "a", "">>,
               <<"a", "", "a">>, <<"a", "a", "a">>}
PipelineTiers ==
    UNION {{MakeTier(0, tk, lb) :
              tk \in {t \in [1..Len(lb) -> SilTicks \cup PhoneTicks] :
                        \A k \in 1..Len(lb) : t[k] \in (IF lb[k] = "" THEN SilTicks
                                                                     ELSE PhoneTicks)}} :
           lb \in TierShapes}

\* The pitch tracks the tracker returns for mel_len frames: voiced, unvoiced,
\* voiced in turn, one frame longer than asked for.
PitchCycle == <<F(2, 1), FZero, F(4, 1)>>
TrackDevs == {1}
Tracks(mel_len) ==
    {[k \in 1..Max(0, mel_len + d) |-> PitchCycle[(k % 3) + 1]] : d \in TrackDevs}

\* ------------------------------------------------------------ main(): helpers
EmptyDict == <<>>
Put(d, k, v) == [x \in (DOMAIN d) \cup {k} |-> IF x = k THEN v ELSE d[x]]

NumBatches(a) == (Len(Fnames) + a.batch_size - 1) \div a.batch_size
\* fnames of batch b (DataLoader, shuffle=False, drop_last=False)
BatchNames(a, b) ==
    SubSeq(Fnames, (b - 1) * a.batch_size + 1, Min(b * a.batch_size, Len(Fnames)))

AnyPitch(a) == a.extract_pitch_mel \/ a.extract_pitch_char \/ a.extract_pitch_trichar
AnyStrategy(a) ==
    a.extract_durations \/ a.extract_durs_from_textgrids
      \/ a.extract_durs_from_unit_sequences

\* A variant of the program order with the normalization blocks inside the
\* batch loop.
Order_normalize_in_loop ==
    <<"mels", "attn", "tg", "unit", "pitch", "trim",
      "norm_mel", "norm_char", "norm_trichar", "load", "done">>
\* The stages of main() in program order and whether each runs.
Order == <<"mels", "attn", "tg", "unit", "pitch", "trim", "load",
           "norm_mel", "norm_char", "norm_trichar", "done">>
StageOn(s) ==
    CASE s = "attn" -> args.extract_durations
      [] s = "tg" -> args.extract_durs_from_textgrids
      [] s = "unit" -> args.extract_durs_from_unit_sequences
      [] s = "pitch" -> AnyPitch(args)
      [] s = "trim" -> args.trim_silence # None
      [] s = "load" -> batch_i < NumBatches(args)
      [] s = "norm_mel" -> args.extract_pitch_mel
      [] s = "norm_char" -> args.extract_pitch_char
      [] s = "norm_trichar" -> args.extract_pitch_trichar
      [] OTHER -> s = "done"
Index(s) == CHOOSE k \in 1..Len(Order) : Order[k] = s
After(s) ==
    LET later == {k \in (Index(s) + 1)..Len(Order) : StageOn(Order[k])}
    IN  Order[CHOOSE k \in later : \A m \in later : k <= m]

\* np.round (half to even) of a non-negative rational, as an int
RRound(p) ==
    LET fl == p[1] \div p[2]
        twice == 2 * (p[1] - fl * p[2])
    IN  IF twice < p[2] THEN fl
        ELSE IF twice > p[2] THEN fl + 1
        ELSE IF fl % 2 = 0 THEN fl ELSE fl + 1

\* torch.histc(xs, min=lo, max=hi, bins=bins): equal bounds are widened by one.
histc(xs, bins, lo, hi) ==
    LET l == IF lo = hi THEN lo - 1 ELSE lo
        h == IF lo = hi THEN hi + 1 ELSE hi
        bin(x) == Min(((x - l) * bins) \div (h - l), bins - 1)
    IN  [b \in 1..bins |->
           Cardinality({k \in 1..Len(xs) : xs[k] >= l /\ xs[k] <= h /\ bin(xs[k]) = b - 1})]

\* Mutant: the length assertion is dropped.
length_matches_unchecked(durs, mel_len) == TRUE

\* assert sum(durs) == mel_len (lines 354 and 381)
length_matches(durs, mel_len) == Sum(durs) = mel_len

\* if dur_diff != 1: DLLogger.log(...)
logs_mismatch(dur_diff) == dur_diff # 1

\* keep_sil_frames (lines 403-406)
keep_sil_frames(a) ==
    LET k == a.trim_silence[1]
    IN  IF k[1] > 0
        THEN RRound(RDivInt(RMul(k, <<a.sampling_rate, 1>>), a.hop_length))
        ELSE k[1] \div k[2]

\* seq[start:end] with start None or >= 0 and end None or an int
PySlice(s, start, end) ==
    LET n == Len(s)
        a == IF start = None THEN 0 ELSE Min(start[1], n)
        b == IF end = None THEN n
             ELSE IF end[1] < 0 THEN Max(n + end[1], 0) ELSE Min(end[1], n)
    IN  SubSeq(s, a + 1, b)

\* seq[mask] for a boolean mask of the same length
RECURSIVE Masked(_, _)
Masked(s, mask) ==
    IF s = <<>> THEN <<>>
    ELSE (IF mask[1] THEN <<s[1]>> ELSE <<>>) \o Masked(Tail(s), Tail(mask))

\* np.where(text == 'sil')[0], as 1-based positions in order
RECURSIVE SilIdx(_, _)
SilIdx(tx, k) ==
    IF k > Len(tx) THEN <<>>
    ELSE (IF tx[k] = "sil" THEN <<k>> ELSE <<>>) \o SilIdx(tx, k + 1)

\* One pass of the trimming loop's body (lines 408-448) for utterance jj of the
\* batch: what it raises, or what it leaves in its locals and saves.
trim_utterance(jj) ==
    LET tx == texts[jj]
        fname == BatchNames(args, batch_i)[jj]
        sil_idx == SilIdx(tx, 1)
        dj == durations[jj]
        sil_durs == [k \in 1..Len(sil_idx) |-> dj[sil_idx[k]]]
        keep == keep_sil_frames(args)
        trim_durs == [k \in 1..Len(sil_idx) |->
                        IF sil_durs[k] > keep THEN sil_durs[k] - keep ELSE 0]
        branch == IF Len(trim_durs) = 2 THEN "both"
                  ELSE IF sil_durs[1] = 0 THEN "leading"
                  ELSE IF sil_durs[1] = Len(texts) - 1 THEN "trailing"
                  ELSE "stale"
        trim_start == CASE branch = "both" -> Some(trim_durs[1])
                        [] branch = "leading" -> Some(trim_durs[1])
                        [] branch = "trailing" -> None
                        [] OTHER -> trim.trim_start
        trim_end0 == CASE branch = "both" -> Some(-trim_durs[2])
                       [] branch = "leading" -> None
                       [] branch = "trailing" -> Some(-trim_durs[1])
                       [] OTHER -> trim.trim_end
        trim_end == IF trim_end0 = Some(0) THEN None ELSE trim_end0
        sil_mask == [k \in 1..Len(tx) |->
                       IF args.trim_silence = Some(<<0, 1>>) THEN tx[k] # "sil" ELSE TRUE]
        mel == PySlice([k \in 1..mel_lens[jj] |-> k], trim_start, trim_end)
        put == [k \in 1..Len(dj) |->
                  IF \E m \in 1..Len(sil_idx) : sil_idx[m] = k
                  THEN LET m == CHOOSE m \in 1..Len(sil_idx) : sil_idx[m] = k
                       IN  sil_durs[m] - trim_durs[m]
                  ELSE dj[k]]
        dur == Masked(put, sil_mask)
    IN  IF Len(sil_idx) = 0 THEN Raise("IndexError")
        ELSE IF branch = "stale" /\ "trim" \notin bound THEN Raise("UnboundLocalError")
        ELSE IF Len(mel) # Sum(dur) THEN Raise("AssertionError")
        ELSE IF fname \notin DOMAIN pitch_vecs.char THEN Raise("KeyError")
        ELSE IF Len(pitch_vecs.char[fname]) # Len(sil_mask) THEN Raise("IndexError")
        ELSE IF Len(Masked(pitch_vecs.char[fname], sil_mask)) # Len(dur)
             THEN Raise("AssertionError")
        ELSE Ok([trim_start |-> trim_start, trim_end |-> trim_end,
                 text |-> Masked(tx, sil_mask), mel |-> mel, dur |-> dur,
                 pitch |-> Masked(pitch_vecs.char[fname], sil_mask)])

\* ------------------------------------------------------------ main(): the stages
Running == err = ""
BatchLen == Len(mel_lens)
\* The loop counter and stage after one pass of a loop over n items.
Step(s, n) ==
    /\ utt_j' = IF utt_j < n THEN utt_j + 1 ELSE 1
    /\ pc' = IF utt_j < n THEN pc ELSE After(s)
Fail(e) ==
    /\ err' = e
    /\ UNCHANGED <<call, ret, args, pc, batch_i, utt_j, mel_lens, texts_padded, bound, durations, texts,
                   times, text, trim, pitch_vecs, mels_file, durs_file, pitch_file, log>>

\* Lines 252-260: the checks before any work.
Startup ==
    /\ Running /\ pc = "start"
    /\ IF args.extract_pitch_char /\ ~AnyStrategy(args)
       THEN Fail("AssertionError")
       ELSE /\ pc' = "load"
            /\ UNCHANGED <<call, ret, args, batch_i, utt_j, mel_lens, texts_padded, bound, durations, texts,
                           times, text, trim, pitch_vecs, mels_file, durs_file,
                           pitch_file, log, err>>

\* Lines 301-305: the loader yields the next batch.
LoadBatch ==
    /\ Running /\ pc = "load"
    /\ batch_i' = batch_i + 1
    /\ \E ml \in [1..Len(BatchNames(args, batch_i + 1)) -> 1..MaxMelLen],
          tp \in [1..Len(BatchNames(args, batch_i + 1)) -> LoaderTexts(args)] :
         /\ mel_lens' = ml
         /\ texts_padded' = tp
    /\ pc' = "mels" /\ utt_j' = 1
    /\ UNCHANGED <<call, ret, args, bound, durations, texts, times, text, trim, pitch_vecs,
                   mels_file, durs_file, pitch_file, log, err>>

\* Lines 307-309: every mel of the batch is saved, whatever the flags.
SaveMels ==
    /\ Running /\ pc = "mels"
    /\ mels_file' = [f \in (DOMAIN mels_file) \cup {BatchNames(args, batch_i)[k] : k \in 1..BatchLen} |->
                       IF \E k \in 1..BatchLen : BatchNames(args, batch_i)[k] = f
                       THEN LET k == CHOOSE k \in 1..BatchLen : BatchNames(args, batch_i)[k] = f
                            IN  [m \in 1..mel_lens[k] |-> m]
                       ELSE mels_file[f]]
    /\ pc' = After("mels") /\ utt_j' = 1
    /\ UNCHANGED <<call, ret, args, batch_i, mel_lens, texts_padded, bound, durations, texts, times,
                   text, trim, pitch_vecs, durs_file, pitch_file, log, err>>

\* Lines 324-333, one utterance: the histogram of the attention's argmax.
AttentionDuration ==
    /\ Running /\ pc = "attn"
    /\ LET text_len == Len(texts_padded[utt_j])
           fname == BatchNames(args, batch_i)[utt_j]
       IN  \E argmax \in [1..mel_lens[utt_j] -> 0..(text_len - 1)] :
             LET dur == histc(argmax, text_len, 0, text_len - 1)
             IN  /\ durations' = Append(IF utt_j = 1 THEN <<>> ELSE durations, dur)
                 /\ durs_file' = Put(durs_file, fname, dur)
    /\ bound' = bound \cup {"durations"}
    /\ Step("attn", BatchLen)
    /\ UNCHANGED <<call, ret, args, batch_i, mel_lens, texts_padded, texts, times, text, trim,
                   pitch_vecs, mels_file, pitch_file, log, err>>

\* Lines 334-362, one utterance: durations parsed from its TextGrid.
TextGridDuration ==
    /\ Running /\ pc = "tg"
    /\ \E tier \in PipelineTiers :
         LET r == parse_textgrid(tier, args.sampling_rate, args.hop_length)
             fname == BatchNames(args, batch_i)[utt_j]
         IN  IF r.kind # "ok" THEN Fail(r.exc)
             ELSE IF ~length_matches(r.val.durations, mel_lens[utt_j])
             THEN Fail("AssertionError")
             ELSE /\ texts' = Append(IF utt_j = 1 THEN <<>> ELSE texts, r.val.phones)
                  /\ times' = Append(IF utt_j = 1 THEN <<>> ELSE times,
                                     <<r.val.start_time, r.val.end_time>>)
                  /\ durations' = Append(IF utt_j = 1 THEN <<>> ELSE durations, r.val.durations)
                  /\ durs_file' = Put(durs_file, fname, r.val.durations)
                  /\ bound' = bound \cup {"durations", "texts"}
                  /\ Step("tg", BatchLen)
                  /\ UNCHANGED <<call, ret, args, batch_i, mel_lens, texts_padded, text, trim, pitch_vecs,
                                 mels_file, pitch_file, log, err>>

\* Lines 363-387, one utterance: run lengths of its unit sequence, the last one
\* adjusted to the mel length.
UnitDuration ==
    /\ Running /\ pc = "unit"
    /\ LET rle_text == run_length_encode(texts_padded[utt_j])
           fname == BatchNames(args, batch_i)[utt_j]
       IN  IF rle_text.kind # "ok" THEN Fail(rle_text.exc)
           ELSE LET durs0 == [k \in 1..Len(rle_text.val) |-> rle_text.val[k][2]]
                    total_dur == Sum(durs0)
                    dur_diff == mel_lens[utt_j] - total_dur
                    durs == IF total_dur # mel_lens[utt_j]
                            THEN [durs0 EXCEPT ![Len(durs0)] = @ + dur_diff]
                            ELSE durs0
                IN  IF ~length_matches(durs, mel_lens[utt_j]) THEN Fail("AssertionError")
                    ELSE /\ log' = IF total_dur # mel_lens[utt_j] /\ logs_mismatch(dur_diff)
                                   THEN log \cup {[fname |-> fname, mels |-> mel_lens[utt_j],
                                                   durs |-> total_dur]}
                                   ELSE log
                         /\ durations' = Append(IF utt_j = 1 THEN <<>> ELSE durations, durs)
                         /\ durs_file' = Put(durs_file, fname, durs)
                         /\ bound' = bound \cup {"durations"}
                         /\ Step("unit", BatchLen)
                         /\ UNCHANGED <<call, ret, args, batch_i, mel_lens, texts_padded, texts, times, text,
                                        trim, pitch_vecs, mels_file, pitch_file, err>>

\* Lines 388-399, one utterance: its three pitch vectors go to the accumulators.
PitchVectors ==
    /\ Running /\ pc = "pitch"
    /\ IF "durations" \notin bound THEN Fail("UnboundLocalError")
       ELSE IF args.trim_silence # None /\ "texts" \notin bound THEN Fail("UnboundLocalError")
       ELSE \E pitch \in Tracks(Sum(durations[utt_j])) :
              LET r == calculate_pitch(pitch, durations[utt_j])
                  fname == BatchNames(args, batch_i)[utt_j]
              IN  IF r.kind # "ok" THEN Fail(r.exc)
                  ELSE /\ pitch_vecs' = [mel |-> Put(pitch_vecs.mel, fname, r.val.mel),
                                         char |-> Put(pitch_vecs.char, fname, r.val.char),
                                         trichar |-> Put(pitch_vecs.trichar, fname,
                                                         r.val.trichar)]
                       /\ Step("pitch", Len(durations))
                       /\ UNCHANGED <<call, ret, args, batch_i, mel_lens, texts_padded, bound, durations,
                                      texts, times, text, trim, mels_file, durs_file,
                                      pitch_file, log, err>>

\* Lines 400-448, one utterance: silences trimmed, mel and durations saved again.
TrimSilence ==
    /\ Running /\ pc = "trim"
    /\ IF ~args.extract_durs_from_textgrids THEN Fail("AssertionError")
       ELSE LET r == trim_utterance(utt_j)
                fname == BatchNames(args, batch_i)[utt_j]
            IN  IF r.kind # "ok" THEN Fail(r.exc)
                ELSE /\ trim' = [trim_start |-> r.val.trim_start, trim_end |-> r.val.trim_end]
                     /\ bound' = bound \cup {"trim"}
                     /\ text' = r.val.text
                     /\ pitch_vecs' = [pitch_vecs EXCEPT !.char = Put(@, fname, r.val.pitch)]
                     /\ mels_file' = Put(mels_file, fname, r.val.mel)
                     /\ durs_file' = Put(durs_file, fname, r.val.dur)
                     /\ Step("trim", Len(texts))
                     /\ UNCHANGED <<call, ret, args, batch_i, mel_lens, texts_padded, durations, texts, times,
                                    pitch_file, log, err>>

\* Lines 453-471 for one resolution: the accumulator is normalized in place and
\* every vector of it saved; pitch_char's mean and std are saved too.
NormalizeAndSave(stage, res) ==
    /\ Running /\ pc = stage
    /\ LET r == normalize_pitch_vectors(pitch_vecs[res])
       IN  IF r.kind # "ok" THEN Fail(r.exc)
           ELSE /\ pitch_vecs' = [pitch_vecs EXCEPT ![res] = r.val.vecs]
                /\ pitch_file' = [pitch_file EXCEPT
                                    ![res] = r.val.vecs,
                                    !.stats = IF res = "char"
                                              THEN Some(<<r.val.mean, r.val.var>>) ELSE @]
                /\ pc' = After(stage)
                /\ UNCHANGED <<call, ret, args, batch_i, utt_j, mel_lens, texts_padded, bound, durations, texts,
                               times, text, trim, mels_file, durs_file, log, err>>

NormalizeMel == NormalizeAndSave("norm_mel", "mel")
NormalizeChar == NormalizeAndSave("norm_char", "char")
NormalizeTrichar == NormalizeAndSave("norm_trichar", "trichar")

mainvars == <<args, pc, batch_i, utt_j, mel_lens, texts_padded, bound, durations, texts, times,
              text, trim, pitch_vecs, mels_file, durs_file, pitch_file, log, err>>

\* The state of main() before its first statement, for a command line a.
MainInit(a) ==
    /\ args = a
    /\ pc = "start" /\ batch_i = 0 /\ utt_j = 1
    /\ mel_lens = <<>> /\ texts_padded = <<>>
    /\ bound = {}
    /\ durations = <<>> /\ texts = <<>> /\ times = <<>> /\ text = <<>>
    /\ trim = [trim_start |-> None, trim_end |-> None]
    /\ pitch_vecs = [mel |-> EmptyDict, char |-> EmptyDict, trichar |-> EmptyDict]
    /\ mels_file = EmptyDict /\ durs_file = EmptyDict
    /\ pitch_file = [mel |-> EmptyDict, char |-> EmptyDict, trichar |-> EmptyDict,
                     stats |-> None]
    /\ log = {}
    /\ err = ""

Init ==
    /\ call = [op |-> "none"] /\ ret = Pending
    /\ \E a \in Configs : MainInit(a)

Next ==
    \/ Startup
    \/ LoadBatch
    \/ SaveMels
    \/ AttentionDuration
    \/ TextGridDuration
    \/ UnitDuration
    \/ PitchVectors
    \/ TrimSilence
    \/ NormalizeMel
    \/ NormalizeChar
    \/ NormalizeTrichar

\* ------------------------------------------------------------ FnSpec: the helpers
Units == {1, 2, 3}
TierLabels == {"sil", "sp", "spn", "", "a"}
IntervalTicks == {0, 1, 3}
FnSamplingRates == {3}
FnHopLengths == {2}
PitchVals == {FZero, F(1, 1), F(3, 1)}
VecVals == {FZero, F(1, 1), F(2, 1), F(3, 1)}

\* The calls explored, one per initial state.
ChunkCall ==
    \E n \in 0..MaxN, k \in 1..MaxAry :
        call = [op |-> "dur_chunk_sizes", n |-> n, ary |-> k]
RleCall ==
    \E len \in 1..MaxSymbols : \E s \in [1..len -> Units] :
        call = [op |-> "run_length_encode", symbols |-> s]
TierCall ==
    \E len \in 1..MaxTier, t0 \in {0, 1}, sr \in FnSamplingRates, hop \in FnHopLengths :
        \E tk \in [1..len -> IntervalTicks], lb \in [1..len -> TierLabels] :
            call = [op |-> "parse_textgrid", tier |-> MakeTier(t0, tk, lb),
                    sampling_rate |-> sr, hop_length |-> hop]
PitchCall ==
    \E len \in 1..MaxDurs : \E d \in [1..len -> 0..MaxFrames] :
        /\ Sum(d) <= MaxFrames
        /\ \E plen \in Max(0, Sum(d) - 1)..(Sum(d) + 1) : \E p \in [1..plen -> PitchVals] :
              call = [op |-> "calculate_pitch", durs |-> d, pitch |-> p]
NormCall ==
    \E m \in 1..Len(Fnames) :
        \E vs \in [{Fnames[k] : k \in 1..m} -> SeqsOf(VecVals, 1, MaxVecLen)] :
            call = [op |-> "normalize_pitch_vectors", pitch_vecs |-> vs]

FnInit ==
    /\ (ChunkCall \/ RleCall \/ TierCall \/ PitchCall \/ NormCall)
    /\ ret = Pending
    /\ MainInit(CHOOSE a \in Configs : TRUE)

Call_dur_chunk_sizes ==
    /\ call.op = "dur_chunk_sizes" /\ ret.kind = "pending"
    /\ ret' = dur_chunk_sizes(call.n, call.ary)
    /\ UNCHANGED <<call, mainvars>>

Call_run_length_encode ==
    /\ call.op = "run_length_encode" /\ ret.kind = "pending"
    /\ ret' = run_length_encode(call.symbols)
    /\ UNCHANGED <<call, mainvars>>

Call_parse_textgrid ==
    /\ call.op = "parse_textgrid" /\ ret.kind = "pending"
    /\ ret' = parse_textgrid(call.tier, call.sampling_rate, call.hop_length)
    /\ UNCHANGED <<call, mainvars>>

Call_calculate_pitch ==
    /\ call.op = "calculate_pitch" /\ ret.kind = "pending"
    /\ ret' = calculate_pitch(call.pitch, call.durs)
    /\ UNCHANGED <<call, mainvars>>

Call_normalize_pitch_vectors ==
    /\ call.op = "normalize_pitch_vectors" /\ ret.kind = "pending"
    /\ ret' = normalize_pitch_vectors(call.pitch_vecs)
    /\ UNCHANGED <<call, mainvars>>

FnNext ==
    \/ Call_dur_chunk_sizes
    \/ Call_run_length_encode
    \/ Call_parse_textgrid
    \/ Call_calculate_pitch
    \/ Call_normalize_pitch_vectors

vars == <<call, ret, mainvars>>

FnSpec == FnInit /\ [][FnNext]_vars

Spec == Init /\ [][Next]_vars

\* ------------------------------------------------------------ claims on the helpers
Returned(op) == call.op = op /\ ret.kind # "pending"

\* C2: for n >= 0 and k >= 1, dur_chunk_sizes(n, k) returns exactly k non-negative
\* integers that sum to n and differ by at most 1; the first n mod k of them are
\* ceil(n/k) and the others floor(n/k); split(3,2) = [2,1], split(5,3) = [2,2,1].
C2_ChunkSizes ==
    Returned("dur_chunk_sizes") =>
        LET n == call.n
            k == call.ary
            lo == n \div k
            hi == (n + k - 1) \div k
        IN  /\ ret.kind = "ok"
            /\ Len(ret.val) = k
            /\ \A i \in 1..k : ret.val[i] >= 0
            /\ Sum(ret.val) = n
            /\ \A i, j \in 1..k : ret.val[i] - ret.val[j] <= 1
            /\ \A i \in 1..k : ret.val[i] = IF i <= n % k THEN hi ELSE lo
            /\ (n = 3 /\ k = 2) => ret.val = <<2, 1>>
            /\ (n = 5 /\ k = 3) => ret.val = <<2, 2, 1>>

C2_Witness ==
    /\ Returned("dur_chunk_sizes")
    /\ call.n = 5 /\ call.ary = 3
    /\ ret = Ok(<<2, 2, 1>>)

\* The runs expanded back to a symbol sequence.
RECURSIVE Expand(_)
Expand(runs) ==
    IF runs = <<>> THEN <<>>
    ELSE [i \in 1..runs[1][2] |-> runs[1][1]] \o Expand(Tail(runs))

\* C3: for every non-empty symbol sequence, of length 1 too, run_length_encode
\* returns the maximal runs in order: neighbouring runs differ in value, every run
\* length is >= 1, the lengths sum to the input length, the runs expand to the
\* input, and a length-1 input gives exactly one run of length 1.
C3_RunLengthEncode ==
    Returned("run_length_encode") =>
        /\ ret.kind = "ok"
        /\ \A i \in 1..Len(ret.val) : ret.val[i][2] >= 1
        /\ \A i \in 1..(Len(ret.val) - 1) : ret.val[i][1] # ret.val[i + 1][1]
        /\ Sum([i \in 1..Len(ret.val) |-> ret.val[i][2]]) = Len(call.symbols)
        /\ Expand(ret.val) = call.symbols
        /\ Len(call.symbols) = 1 => ret.val = <<<<call.symbols[1], 1>>>>

\* C4: parse_textgrid gives one phone per interval, in order; a label of the
\* silence set becomes "sil" exactly at the first or last interval and "sp"
\* elsewhere, any other label is kept; so "sil" occurs at most twice and only at
\* the first or last index.
C4_PhoneLabels ==
    Returned("parse_textgrid") =>
        LET n == Len(call.tier)
            edge(i) == i = 1 \/ i = n
        IN  /\ ret.kind = "ok"
            /\ Len(ret.val.phones) = n
            /\ \A i \in 1..n :
                 LET p == call.tier[i].text
                     q == ret.val.phones[i]
                 IN  IF p \in {"sil", "sp", "spn", ""}
                     THEN /\ edge(i) => q = "sil"
                          /\ ~edge(i) => q = "sp"
                     ELSE q = p
            /\ Cardinality({i \in 1..n : ret.val.phones[i] = "sil"}) <= 2
            /\ \A i \in 1..n : ret.val.phones[i] = "sil" => edge(i)

C4_Witness ==
    /\ Returned("parse_textgrid")
    /\ Len(call.tier) = 3
    /\ call.tier[1].text = "" /\ call.tier[2].text = "sp" /\ call.tier[3].text = ""
    /\ ret.kind = "ok"
    /\ ret.val.phones = <<"sil", "sp", "sil">>

\* The mean of the nonzero values of track[a:b], 0.0 when there is none.
NonZeroMean(track, a, b) ==
    LET idx == {i \in (a + 1)..Min(b, Len(track)) : ~IsZero(track[i])}
        RECURSIVE Tot(_)
        Tot(S) == IF S = {} THEN <<0, 1>>
                  ELSE LET x == CHOOSE y \in S : TRUE
                       IN  RAdd(RatOf(track[x]), Tot(S \ {x}))
    IN  IF idx = {} THEN FZero ELSE FOfRat(RDivInt(Tot(idx), Cardinality(idx)))

\* The 3*T sub-symbol durations: ceil/floor thirds of each duration.
Thirds(durs) ==
    [j \in 1..(3 * Len(durs)) |->
        LET d == durs[(j + 2) \div 3]
            pos == ((j - 1) % 3) + 1
        IN  IF pos <= d % 3 THEN d \div 3 + 1 ELSE d \div 3]

\* C6: every per-symbol pitch value i of calculate_pitch, also when there are more
\* symbols than frames, is the mean of the nonzero raw values in the window
\* [cumsum(durs)[i], cumsum(durs)[i+1]) and 0.0 when there is none; the same for
\* the 3*T sub-symbol windows.
C6_PitchAggregation ==
    (Returned("calculate_pitch") /\ ret.kind = "ok") =>
        LET cum == CumSum(call.durs)
            tcum == CumSum(Thirds(call.durs))
        IN  /\ Len(ret.val.char) = Len(call.durs)
            /\ \A i \in 1..Len(call.durs) :
                 ret.val.char[i] = NonZeroMean(call.pitch, cum[i], cum[i + 1])
            /\ Len(ret.val.trichar) = 3 * Len(call.durs)
            /\ \A j \in 1..(3 * Len(call.durs)) :
                 ret.val.trichar[j] = NonZeroMean(call.pitch, tcum[j], tcum[j + 1])

\* C7: after normalize_pitch_vectors the indices holding 0.0 in every vector are
\* exactly those that held 0.0 before: zeros stay zero and no nonzero entry
\* becomes 0.0.
C7_ZeroSetUnchanged ==
    (Returned("normalize_pitch_vectors") /\ ret.kind = "ok") =>
        \A k \in DOMAIN call.pitch_vecs :
            /\ Len(ret.val.vecs[k]) = Len(call.pitch_vecs[k])
            /\ \A i \in 1..Len(call.pitch_vecs[k]) :
                 IsZero(ret.val.vecs[k][i]) <=> IsZero(call.pitch_vecs[k][i])

\* ------------------------------------------------------------ claims on main()
AllNames == {Fnames[k] : k \in 1..Len(Fnames)}
\* The batch positions whose pass of the given loop is complete, while the lists
\* of the current batch are still those the loop read.
Later(stage) == {Order[k] : k \in (Index(stage) + 1)..Len(Order)} \ {"mels"}
Done(stage, n) ==
    IF pc = stage THEN 1..(utt_j - 1)
    ELSE IF pc \in Later(stage) /\ batch_i >= 1 THEN 1..n
    ELSE {}

\* C1: whatever the duration strategy, a persisted duration sequence sums exactly
\* to its utterance's mel length (the persisted mel's frame count); an
\* unreconciled mismatch aborts before that utterance's durations are written.
C1_DurationsSumToMelLen ==
    /\ \A f \in DOMAIN durs_file :
         /\ f \in DOMAIN mels_file
         /\ Sum(durs_file[f]) = Len(mels_file[f])
    /\ (err = "AssertionError" /\ pc \in {"tg", "unit"}) =>
         BatchNames(args, batch_i)[utt_j] \notin DOMAIN durs_file

C1_Witness ==
    /\ args.extract_durs_from_unit_sequences
    /\ pc = "done" /\ err = ""
    /\ DOMAIN durs_file = AllNames
    /\ \E r \in log : r.mels # r.durs

\* The unit strategy's reconciliation as the state shows it for position k of the
\* batch: the run lengths, the difference to the mel length, whether it was logged.
UnitDone == IF args.extract_durs_from_unit_sequences THEN Done("unit", Len(durations)) ELSE {}
RunLengths(k) ==
    LET r == run_length_encode(texts_padded[k]).val
    IN  [m \in 1..Len(r) |-> r[m][2]]
DurDiff(k) == mel_lens[k] - Sum(RunLengths(k))
Logged(k) == \E r \in log : r.fname = BatchNames(args, batch_i)[k]
OnlyLastAdjusted(k) ==
    durations[k] = [RunLengths(k) EXCEPT ![Len(RunLengths(k))] = @ + DurDiff(k)]

\* C5: a difference of 0 changes and logs nothing; a difference of magnitude 1
\* (+1 or -1) is adjusted silently; any other difference is logged and still
\* adjusted; only the last run's duration changes.
C5_SilentForMagnitudeOne ==
    \A k \in UnitDone :
        /\ OnlyLastAdjusted(k)
        /\ Logged(k) <=> (DurDiff(k) # 0 /\ Abs(DurDiff(k)) # 1)

\* The trimming claimed for position k of the batch: the frames left when
\* max(0, silDuration - keepFrames) frames go from each end that has a "sil".
TrimDone == IF args.trim_silence # None THEN Done("trim", Len(texts)) ELSE {}
TrimAmount(k, pos) ==
    IF texts[k][pos] = "sil"
    THEN Max(0, durations[k][pos] - keep_sil_frames(args))
    ELSE 0
ExpectedMel(k) ==
    LET lead == TrimAmount(k, 1)
        trail == TrimAmount(k, Len(texts[k]))
    IN  [m \in 1..(mel_lens[k] - lead - trail) |-> m + lead]

\* C8: for every utterance the trimmer processed, whatever the batch size and the
\* utterances before it, frames go from both ends when both have a "sil", from
\* the start only when only the first symbol is "sil", from the end only when
\* only the last is; and sum(durations) is the new mel length.
C8_TrimsTheSilentEnds ==
    \A k \in TrimDone :
        LET f == BatchNames(args, batch_i)[k]
        IN  /\ mels_file[f] = ExpectedMel(k)
            /\ Sum(durs_file[f]) = Len(mels_file[f])

\* C9: with trimming on, the artifacts finally persisted agree in length with
\* the trimmed mel: sum(durations), the per-frame pitch vector's length, the
\* per-symbol pitch vector's length (that of the durations) and the sub-symbol
\* vector's length (three times that).
C9_TrimmedArtifactsConsistent ==
    (pc = "done" /\ err = "" /\ args.trim_silence # None) =>
        \A f \in AllNames :
            /\ Sum(durs_file[f]) = Len(mels_file[f])
            /\ args.extract_pitch_char => Len(pitch_file.char[f]) = Len(durs_file[f])
            /\ args.extract_pitch_mel => Len(pitch_file.mel[f]) = Len(mels_file[f])
            /\ args.extract_pitch_trichar =>
                 Len(pitch_file.trichar[f]) = 3 * Len(durs_file[f])

\* C10: a command line that asks for any pitch extraction without a duration
\* strategy, or for trimming without the TextGrid strategy, is rejected before
\* any per-utterance work: no mel, duration or pitch artifact is ever written.
ConfigurationConflict ==
    \/ AnyPitch(args) /\ ~AnyStrategy(args)
    \/ args.trim_silence # None /\ ~args.extract_durs_from_textgrids
C10_ConflictWritesNothing ==
    ConfigurationConflict =>
        /\ mels_file = EmptyDict /\ durs_file = EmptyDict
        /\ pitch_file.mel = EmptyDict /\ pitch_file.char = EmptyDict
        /\ pitch_file.trichar = EmptyDict

\* ------------------------------------------------------------ two-phase pitch
Resolutions == {"mel", "char", "trichar"}
NormStage(res) ==
    CASE res = "mel" -> "norm_mel"
      [] res = "char" -> "norm_char"
      [] OTHER -> "norm_trichar"
Requested(res) ==
    CASE res = "mel" -> args.extract_pitch_mel
      [] res = "char" -> args.extract_pitch_char
      [] OTHER -> args.extract_pitch_trichar
\* The step in which normalize_pitch_vectors is called on res's accumulator.
Normalizes(res) == pc = NormStage(res) /\ (pc' # pc \/ err' # err)

C11_Step ==
    \A res \in Resolutions :
        /\ Normalizes(res) =>
              /\ Requested(res)
              /\ batch_i = NumBatches(args)
              /\ DOMAIN pitch_vecs[res] = AllNames
              /\ pitch_file[res] = EmptyDict
        /\ pitch_file'[res] # pitch_file[res] =>
              /\ Normalizes(res)
              /\ pitch_file'[res] = pitch_vecs'[res]
        /\ pitch_file[res] # EmptyDict =>
              /\ pc' # NormStage(res)
              /\ pitch_vecs'[res] = pitch_vecs[res]
              /\ pitch_file'[res] = pitch_file[res]
        /\ pc' = "done" =>
              (Requested(res) <=> pitch_file'[res] # EmptyDict)

\* C11: for each requested pitch resolution the accumulator is normalized once,
\* in a step taken after the last batch when every utterance has an entry in it
\* (so after the batch loop's trimming) and nothing of that resolution is yet
\* persisted; the persisted vectors are the normalized ones; afterwards the
\* accumulator and the persisted vectors never change and the normalization is
\* not entered again; a run that reaches its end has normalized exactly the
\* requested resolutions.
C11_NormalizedOnceAfterAccumulation == [][C11_Step]_vars

C11_Witness ==
    /\ pc = "done" /\ err = ""
    /\ args.batch_size = 1
    /\ args.trim_silence # None
    /\ \A res \in Resolutions : DOMAIN pitch_file[res] = AllNames

\* C12: every duration sequence persisted by the unit run-length strategy holds
\* only non-negative integers, the adjusted last run's duration included.
C12_UnitDurationsNonNegative ==
    args.extract_durs_from_unit_sequences =>
        \A f \in DOMAIN durs_file :
            \A m \in 1..Len(durs_file[f]) : durs_file[f][m] >= 0

\* ceil(t * sampleRate / hopLength) for a time t >= 0 given as a fraction: the
\* least k with k * hopLength >= t * sampleRate.
FrameCeil(t, sr, hop) ==
    CHOOSE k \in 0..(t[1] * sr) :
        /\ k * hop * t[2] >= t[1] * sr
        /\ (k - 1) * hop * t[2] < t[1] * sr
RatLeq(p, q) == p[1] * q[2] <= q[1] * p[2]
Contiguous(tier) ==
    /\ \A i \in 1..Len(tier) : RatLeq(tier[i].start_time, tier[i].end_time)
    /\ \A i \in 2..Len(tier) : tier[i].start_time = tier[i - 1].end_time

\* C13: for a tier whose intervals are contiguous, with start <= end,
\* parse_textgrid gives each interval the duration
\* ceil(end * sampleRate / hopLength) - ceil(start * sampleRate / hopLength);
\* every duration is non-negative; the returned start and end times are the
\* first interval's start and the last interval's end; and the durations sum to
\* ceil(endTime * sampleRate / hopLength) - ceil(startTime * sampleRate / hopLength).
C13_CeilingDifferenceDurations ==
    (Returned("parse_textgrid") /\ Contiguous(call.tier)) =>
        LET n == Len(call.tier)
            sr == call.sampling_rate
            hop == call.hop_length
        IN  /\ ret.kind = "ok"
            /\ Len(ret.val.durations) = n
            /\ \A i \in 1..n :
                 /\ ret.val.durations[i] =
                      FrameCeil(call.tier[i].end_time, sr, hop)
                        - FrameCeil(call.tier[i].start_time, sr, hop)
                 /\ ret.val.durations[i] >= 0
            /\ ret.val.start_time = call.tier[1].start_time
            /\ ret.val.end_time = call.tier[n].end_time
            /\ Sum(ret.val.durations) =
                 FrameCeil(ret.val.end_time, sr, hop)
                   - FrameCeil(ret.val.start_time, sr, hop)

\* A tier of three intervals whose lengths, each rounded up on its own, would
\* count more frames than the tier spans, one interval of positive length
\* getting no frame.
C13_Witness ==
    /\ Returned("parse_textgrid") /\ ret.kind = "ok"
    /\ Len(call.tier) = 3 /\ Contiguous(call.tier)
    /\ \E i \in 1..3 :
         /\ call.tier[i].start_time # call.tier[i].end_time
         /\ ret.val.durations[i] = 0
    /\ Sum([i \in 1..3 |->
              frames_between_ceil_of_length(call.tier[i].start_time, call.tier[i].end_time,
                                            call.sampling_rate, call.hop_length)])
         > Sum(ret.val.durations)

====
